---- MODULE Spec2Model ----
(***************************************************************************)
(* A model of go-iq-decoder's concurrency backbone and block filters:      *)
(*   - internal/ringbuffer/ringbuffer.go : RingBuffer (New, AvailableWrite,*)
(*     AvailableRead, Close, Write, Read), one producer goroutine and one   *)
(*     consumer goroutine, sync.Mutex and sync.Cond modelled step by step;  *)
(*   - internal/dsp/fir.go : FIRFilter (NewFIRFilter, Process).             *)
(* Samples are the sequence numbers 1, 2, 3, ... in the order in which the  *)
(* producer hands them to Write (as the repository's test does), so loss,   *)
(* duplication and reordering are all visible in what Read returns.         *)
(***************************************************************************)
EXTENDS Integers, Sequences, FiniteSets, TLC

(***************************************************************************)
(* Bounds of the model.                                                     *)
(***************************************************************************)
\* rb.size, the argument of ringbuffer.New
Size == 3
\* the longest chunk one Write call is given (longer than Size on purpose)
MaxChunk == 4
\* the number of samples the producer hands to Write in one run
MaxTotal == 6
\* the longest input block one Process call is given
MaxBlock == 3
\* the number of input samples one filter is fed in one run
MaxIn == 5
\* the number of Process calls made on one filter in one run
MaxCalls == 4
\* the number of complex samples one demodulator is fed in one run
MaxDemIn == 3
\* the number of Process calls made on one demodulator in one run
MaxDemCalls == 3
\* the number of audio samples the output loop is given in one run
MaxAudio == 4
\* the number of frames put through the two stage-1 filters in one run
MaxFrames == 3
\* cfg.SampleBlockSize, scaled down to the storage: complex samples per frame
SampleBlockSize == 1
\* processIQ: the volume factor and the ends of the signed 16-bit range
Gain == 4000
ClipMax == 32767
ClipMin == -32768

VARIABLES
    buf,          \* rb.buf: the storage, indexed 0 .. Size-1
    readIndex,    \* rb.readIndex
    writeIndex,   \* rb.writeIndex
    closed,       \* rb.closed
    mu,           \* rb.mu: the goroutine holding the mutex, or "none"
    pc,           \* where each goroutine is (a goroutine in *_wait is parked in rb.cond.Wait)
    data,         \* Write's argument data
    wi,           \* Write's loop variable i
    wWaited,      \* the running Write has been parked in cond.Wait at least once
    rn,           \* Read's argument n
    rWaited,      \* the running Read has been parked in cond.Wait at least once
    rDrained,     \* the running Read was called with the buffer closed and empty
    lastRead,     \* what the last Read that returned was asked and gave back
    nextVal,      \* how many samples have been accepted by Write calls so far
    copied,       \* how many samples Write's copy steps have put into storage
    dest,         \* the concatenation of every non-nil Read result, in order
    firTaps,      \* FIRFilter.taps
    firRatio,     \* the ratio argument of Process, as <<numerator, denominator>>
    firState,     \* FIRFilter.state
    firPrev,      \* FIRFilter.state as it was before the last Process call
    firBlock,     \* the input block of the last Process call
    firBuffer,    \* the working buffer of the last Process call
    firOut,       \* the result of the last Process call
    firIn,        \* every input block given to Process so far, concatenated
    firCat,       \* every output of Process so far, concatenated
    firCalls,     \* how many Process calls were made
    demPrev,      \* Demodulator.prev
    demBefore,    \* Demodulator.prev as it was before the last Process call
    demBlock,     \* the input block of the last Process call
    demOut,       \* the result of the last Process call
    demIn,        \* every block given to the demodulator so far, concatenated
    demCat,       \* every output of the demodulator so far, concatenated
    demCalls,     \* how many Process calls were made on the demodulator
    deAlpha,      \* Deemphasis.alpha, a fraction <<numerator, denominator>>
    dePrev,       \* Deemphasis.prev, a fraction
    deIn,         \* every sample given to Filter so far
    deOut,        \* every value returned by Filter so far
    clippedSamples, \* processIQ's counter of clamped samples
    clippedBefore,  \* the counter as it was before the last sample
    sink,         \* the byte pairs written to the audio sink so far
    pPc,          \* where readFileIntoBuffer is between its ring buffer calls
    pErr,         \* err of its last source read: "nil", "EOF" or "fail"
    src,          \* the input source: "more", "eof" or "failed"
    closeCalls,   \* how many times readFileIntoBuffer has called Close
    cPc,          \* where processIQ is between its ring buffer calls
    frames,       \* how many full frames processIQ has put through the chain
    stage1In,     \* every full frame processIQ has passed to stage 1, concatenated
    iqTaps,       \* channelTaps, shared by the two stage-1 filters
    iqRatio,      \* ratioStage1, as <<numerator, denominator>>
    iqBlockSize,  \* cfg.SampleBlockSize of the run
    iState,       \* channelFilterI.state
    qState,       \* channelFilterQ.state
    iOut,         \* intermediateI of the last frame
    qOut,         \* intermediateQ of the last frame
    complexSamples, \* complexSamples of the last frame, as pairs
    iqPanic,      \* an index of line 307 was out of range
    iqFrames      \* how many frames went through the two filters

rbVars == <<buf, readIndex, writeIndex, closed, mu, pc, data, wi, wWaited, rn, rWaited,
            rDrained, lastRead, nextVal, copied, dest>>
firVars == <<firTaps, firRatio, firState, firPrev, firBlock, firBuffer, firOut, firIn, firCat, firCalls>>
demVars == <<demPrev, demBefore, demBlock, demOut, demIn, demCat, demCalls>>
\* the state the ring buffer and the FIR filter never touch
audioVars == <<deAlpha, dePrev, deIn, deOut, clippedSamples, clippedBefore, sink>>
pipeVars == <<pPc, pErr, src, closeCalls, cPc, frames, stage1In>>
iqVars == <<iqTaps, iqRatio, iqBlockSize, iState, qState, iOut, qOut, complexSamples, iqPanic,
            iqFrames>>
auxVars == <<demVars, audioVars, pipeVars, iqVars>>
vars == <<rbVars, firVars, auxVars>>

Min(a, b) == IF a < b THEN a ELSE b

\* the sequence <<a, a+1, ..., b>> (empty when b < a)
Range(a, b) == [k \in 1..(b - a + 1) |-> a + k - 1]

(***************************************************************************)
(* RingBuffer                                                               *)
(***************************************************************************)
Producer == "producer"
Consumer == "consumer"
Proc == {Producer, Consumer}

\* New: a zeroed storage, both cursors 0, not closed
NewBuf == [k \in 0..(Size - 1) |-> 0]

AvailableWriteOf(r, w) ==
    IF w >= r THEN Size - (w - r) - 1 ELSE r - w - 1

AvailableReadOf(r, w) ==
    IF w >= r THEN w - r ELSE Size - r + w

AvailableWrite == AvailableWriteOf(readIndex, writeIndex)

AvailableRead == AvailableReadOf(readIndex, writeIndex)

\* rb.cond.Broadcast(): every goroutine parked in Wait becomes runnable and has
\* to take the mutex again before Wait returns
Broadcast(p) ==
    [q \in Proc |-> IF p[q] = "w_wait" THEN "w_wake"
                    ELSE IF p[q] = "r_wait" THEN "r_wake"
                    ELSE p[q]]

NoRead == [valid |-> FALSE, n |-> 0, isNil |-> FALSE, data |-> <<>>,
           closedAtRet |-> FALSE, waited |-> FALSE, drainedAtCall |-> FALSE,
           base |-> 0, avail |-> 0, copiedAt |-> 0, r0 |-> 0, r1 |-> 0,
           afterShort |-> FALSE, afterPanic |-> FALSE]

RbInit ==
    /\ buf = NewBuf
    /\ readIndex = 0
    /\ writeIndex = 0
    /\ closed = FALSE
    /\ mu = "none"
    /\ pc = [q \in Proc |-> "idle"]
    /\ data = <<>>
    /\ wi = 0
    /\ wWaited = FALSE
    /\ rn = 0
    /\ rWaited = FALSE
    /\ rDrained = FALSE
    /\ lastRead = NoRead
    /\ nextVal = 0
    /\ copied = 0
    /\ dest = <<>>


\* the sizes the consumer asks Read for
ReadSizes == 1..(Size - 1)

\* lines 70-80: how many samples one copy step of Write puts into storage
\* (Go's copy moves min(len(dst), len(src)) elements); r = readIndex,
\* w = writeIndex, remaining = len(data[i:])
WriteRun(r, w, remaining) ==
    IF w >= r THEN Min(Size - w, remaining)
    ELSE Min((r - 1) - w, remaining)

\* lines 73 and 78: writeIndex after a copy step of `written` samples
WriteAdvance(r, w, written) ==
    IF w >= r THEN (w + written) % Size ELSE w + written

\* lines 72 and 77: the storage after copying d[from+1 .. from+cnt] to b[at ..]
CopyIn(b, at, d, from, cnt) ==
    [k \in 0..(Size - 1) |->
        IF k >= at /\ k < at + cnt THEN d[from + (k - at) + 1] ELSE b[k]]

\* readSize without the cap of lines 105-107
ReadSize_NoCap(n, avail) == n

\* lines 104-107: readSize
ReadSize(n, avail) == IF avail < n THEN avail ELSE n

\* lines 113-120: the fresh slice Read returns, copied out in one or two parts
ReadData(b, r, readSize) ==
    IF r + readSize <= Size
    THEN [k \in 1..readSize |-> b[r + k - 1]]
    ELSE LET part1 == Size - r
         IN  [k \in 1..readSize |->
                IF k <= part1 THEN b[r + k - 1] ELSE b[k - part1 - 1]]

\* line 121
ReadAdvance(r, readSize) == (r + readSize) % Size

\* Close without its Broadcast
CloseSignal_None(p) == p

\* line 48: Close's rb.cond.Broadcast()
CloseSignal(p) == Broadcast(p)

\* Write without its Broadcast
WriteSignal_None(p) == p

\* line 81: Write's rb.cond.Broadcast() after a copy step
WriteSignal(p) == Broadcast(p)

\* Read without its Broadcast
ReadSignal_None(p) == p

\* line 122: Read's rb.cond.Broadcast() after readIndex moved
ReadSignal(p) == Broadcast(p)

(* ---- Write (lines 52-83) ---- *)

\* the producer calls Write(data) with the next k samples
WriteCall ==
    /\ pc[Producer] = "idle"
    /\ \E k \in 0..MaxChunk :
          /\ closed \/ nextVal + k <= MaxTotal
          /\ data' = Range(nextVal + 1, nextVal + k)
          /\ nextVal' = IF closed THEN nextVal ELSE nextVal + k
    /\ wi' = 0
    /\ wWaited' = FALSE
    /\ pc' = [pc EXCEPT ![Producer] = "w_lock"]
    /\ UNCHANGED <<auxVars, firVars, buf, readIndex, writeIndex, closed, mu, rn,
                   rWaited, rDrained, lastRead, copied, dest>>

\* line 53: rb.mu.Lock()
WriteLock ==
    /\ pc[Producer] = "w_lock"
    /\ mu = "none"
    /\ mu' = Producer
    /\ pc' = [pc EXCEPT ![Producer] = "w_check"]
    /\ UNCHANGED <<auxVars, firVars, buf, readIndex, writeIndex, closed, data, wi,
                   wWaited, rn, rWaited, rDrained, lastRead, nextVal, copied,
                   dest>>

\* Write without the test of line 56: it enters the loop on a closed buffer
WritePanic_Skipped ==
    /\ pc[Producer] = "w_check"
    /\ closed
    /\ pc' = [pc EXCEPT ![Producer] = "w_loop"]
    /\ UNCHANGED <<auxVars, firVars, buf, readIndex, writeIndex, closed, mu, data, wi,
                   wWaited, rn, rWaited, rDrained, lastRead, nextVal, copied,
                   dest>>

\* lines 56-60: panic on a closed buffer (the deferred Unlock of line 54 runs)
WritePanic ==
    /\ pc[Producer] = "w_check"
    /\ closed
    /\ mu' = "none"
    /\ pc' = [pc EXCEPT ![Producer] = "panicked"]
    /\ UNCHANGED <<auxVars, firVars, buf, readIndex, writeIndex, closed, data, wi,
                   wWaited, rn, rWaited, rDrained, lastRead, nextVal, copied,
                   dest>>

\* lines 56-62: the buffer is open, enter the loop
WriteEnter ==
    /\ pc[Producer] = "w_check"
    /\ ~closed
    /\ pc' = [pc EXCEPT ![Producer] = "w_loop"]
    /\ UNCHANGED <<auxVars, firVars, buf, readIndex, writeIndex, closed, mu, data, wi,
                   wWaited, rn, rWaited, rDrained, lastRead, nextVal, copied,
                   dest>>

\* lines 65-67: no space, park in rb.cond.Wait(), which unlocks rb.mu
WriteWait ==
    /\ pc[Producer] = "w_loop"
    /\ wi < Len(data)
    /\ AvailableWrite = 0
    /\ mu' = "none"
    /\ wWaited' = TRUE
    /\ pc' = [pc EXCEPT ![Producer] = "w_wait"]
    /\ UNCHANGED <<auxVars, firVars, buf, readIndex, writeIndex, closed, data, wi, rn,
                   rWaited, rDrained, lastRead, nextVal, copied, dest>>

\* line 66: Wait returns once the goroutine was awoken and has locked rb.mu again
WriteWake ==
    /\ pc[Producer] = "w_wake"
    /\ mu = "none"
    /\ mu' = Producer
    /\ pc' = [pc EXCEPT ![Producer] = "w_loop"]
    /\ UNCHANGED <<auxVars, firVars, buf, readIndex, writeIndex, closed, data, wi,
                   wWaited, rn, rWaited, rDrained, lastRead, nextVal, copied,
                   dest>>

\* lines 69-81: one copy step and the Broadcast after it
WriteCopy ==
    /\ pc[Producer] = "w_loop"
    /\ wi < Len(data)
    /\ AvailableWrite # 0
    /\ LET written == WriteRun(readIndex, writeIndex, Len(data) - wi)
       IN  /\ buf' = CopyIn(buf, writeIndex, data, wi, written)
           /\ writeIndex' = WriteAdvance(readIndex, writeIndex, written)
           /\ wi' = wi + written
           /\ copied' = copied + written
    /\ pc' = WriteSignal(pc)
    /\ UNCHANGED <<auxVars, firVars, readIndex, closed, mu, data, wWaited, rn, rWaited,
                   rDrained, lastRead, nextVal, dest>>

\* line 63 with i = n: the loop ends, Write returns (deferred Unlock)
WriteReturn ==
    /\ pc[Producer] = "w_loop"
    /\ wi >= Len(data)
    /\ mu' = "none"
    /\ pc' = [pc EXCEPT ![Producer] = "idle"]
    /\ UNCHANGED <<auxVars, firVars, buf, readIndex, writeIndex, closed, data, wi,
                   wWaited, rn, rWaited, rDrained, lastRead, nextVal, copied,
                   dest>>

(* ---- Close (lines 44-49) ---- *)

\* the producer calls Close, once
CloseCall ==
    /\ pc[Producer] = "idle"
    /\ ~closed
    /\ pc' = [pc EXCEPT ![Producer] = "c_lock"]
    /\ UNCHANGED <<auxVars, firVars, buf, readIndex, writeIndex, closed, mu, data, wi,
                   wWaited, rn, rWaited, rDrained, lastRead, nextVal, copied,
                   dest>>

\* line 45
CloseLock ==
    /\ pc[Producer] = "c_lock"
    /\ mu = "none"
    /\ mu' = Producer
    /\ pc' = [pc EXCEPT ![Producer] = "c_set"]
    /\ UNCHANGED <<auxVars, firVars, buf, readIndex, writeIndex, closed, data, wi,
                   wWaited, rn, rWaited, rDrained, lastRead, nextVal, copied,
                   dest>>

\* lines 47-48 and the deferred Unlock
CloseSet ==
    /\ pc[Producer] = "c_set"
    /\ closed' = TRUE
    /\ pc' = [CloseSignal(pc) EXCEPT ![Producer] = "idle"]
    /\ mu' = "none"
    /\ UNCHANGED <<auxVars, firVars, buf, readIndex, writeIndex, data, wi, wWaited, rn,
                   rWaited, rDrained, lastRead, nextVal, copied, dest>>

(* ---- Read (lines 87-124) ---- *)

\* the consumer calls Read(n)
ReadCall ==
    /\ pc[Consumer] = "idle"
    /\ \E n \in ReadSizes : rn' = n
    /\ rWaited' = FALSE
    /\ rDrained' = (closed /\ AvailableRead = 0)
    /\ pc' = [pc EXCEPT ![Consumer] = "r_lock"]
    /\ UNCHANGED <<auxVars, firVars, buf, readIndex, writeIndex, closed, mu, data, wi,
                   wWaited, lastRead, nextVal, copied, dest>>

\* the consumer calls Read(0)
ReadCallZero ==
    /\ pc[Consumer] = "idle"
    /\ rn' = 0
    /\ rWaited' = FALSE
    /\ rDrained' = (closed /\ AvailableRead = 0)
    /\ pc' = [pc EXCEPT ![Consumer] = "r_lock"]
    /\ UNCHANGED <<auxVars, firVars, buf, readIndex, writeIndex, closed, mu, data, wi,
                   wWaited, lastRead, nextVal, copied, dest>>

\* Read entering its critical section without waiting for the mutex
ReadLock_NoMutex ==
    /\ pc[Consumer] = "r_lock"
    /\ mu' = Consumer
    /\ pc' = [pc EXCEPT ![Consumer] = "r_loop"]
    /\ UNCHANGED <<auxVars, firVars, buf, readIndex, writeIndex, closed, data, wi,
                   wWaited, rn, rWaited, rDrained, lastRead, nextVal, copied,
                   dest>>

\* line 88
ReadLock ==
    /\ pc[Consumer] = "r_lock"
    /\ mu = "none"
    /\ mu' = Consumer
    /\ pc' = [pc EXCEPT ![Consumer] = "r_loop"]
    /\ UNCHANGED <<auxVars, firVars, buf, readIndex, writeIndex, closed, data, wi,
                   wWaited, rn, rWaited, rDrained, lastRead, nextVal, copied,
                   dest>>

\* lines 94-96: open and too little data, park in rb.cond.Wait()
ReadWait ==
    /\ pc[Consumer] = "r_loop"
    /\ ~closed /\ AvailableRead < rn
    /\ mu' = "none"
    /\ rWaited' = TRUE
    /\ pc' = [pc EXCEPT ![Consumer] = "r_wait"]
    /\ UNCHANGED <<auxVars, firVars, buf, readIndex, writeIndex, closed, data, wi,
                   wWaited, rn, rDrained, lastRead, nextVal, copied, dest>>

\* line 95: Wait returns once the goroutine was awoken and has locked rb.mu again
ReadWake ==
    /\ pc[Consumer] = "r_wake"
    /\ mu = "none"
    /\ mu' = Consumer
    /\ pc' = [pc EXCEPT ![Consumer] = "r_loop"]
    /\ UNCHANGED <<auxVars, firVars, buf, readIndex, writeIndex, closed, data, wi,
                   wWaited, rn, rWaited, rDrained, lastRead, nextVal, copied,
                   dest>>

\* what a returning Read leaves in lastRead
\* (base: samples delivered before; avail: AvailableRead() before; r0, r1:
\* readIndex before and after)
ReadRecord(isNil, d, r1) ==
    [valid |-> TRUE, n |-> rn, isNil |-> isNil, data |-> d,
     closedAtRet |-> closed, waited |-> rWaited, drainedAtCall |-> rDrained,
     base |-> Len(dest), avail |-> AvailableRead, copiedAt |-> copied,
     r0 |-> readIndex, r1 |-> r1,
     afterPanic |-> pc[Producer] = "panicked",
     afterShort |-> /\ lastRead.valid
                    /\ lastRead.closedAtRet
                    /\ ~lastRead.isNil
                    /\ Len(lastRead.data) < lastRead.n]

\* lines 99-101 and 109-111: Read returns nil (deferred Unlock)
ReadReturnNil ==
    /\ pc[Consumer] = "r_loop"
    /\ ~(~closed /\ AvailableRead < rn)
    /\ \/ closed /\ AvailableRead = 0
       \/ ReadSize(rn, AvailableRead) = 0
    /\ lastRead' = ReadRecord(TRUE, <<>>, readIndex)
    /\ mu' = "none"
    /\ pc' = [pc EXCEPT ![Consumer] = "idle"]
    /\ UNCHANGED <<auxVars, firVars, buf, readIndex, writeIndex, closed, data, wi,
                   wWaited, rn, rWaited, rDrained, nextVal, copied, dest>>

\* lines 104-123: Read copies readSize samples out, advances readIndex,
\* broadcasts and returns the samples (deferred Unlock)
ReadReturnData ==
    /\ pc[Consumer] = "r_loop"
    /\ ~(~closed /\ AvailableRead < rn)
    /\ ~(closed /\ AvailableRead = 0)
    /\ LET readSize == ReadSize(rn, AvailableRead)
           d == ReadData(buf, readIndex, readSize)
       IN  /\ readSize # 0
           /\ readIndex' = ReadAdvance(readIndex, readSize)
           /\ lastRead' = ReadRecord(FALSE, d, ReadAdvance(readIndex, readSize))
           /\ dest' = dest \o d
    /\ mu' = "none"
    /\ pc' = [ReadSignal(pc) EXCEPT ![Consumer] = "idle"]
    /\ UNCHANGED <<auxVars, firVars, buf, writeIndex, closed, data, wi, wWaited, rn,
                   rWaited, rDrained, nextVal, copied>>

ProducerNext ==
    \/ WriteCall \/ WriteLock \/ WritePanic \/ WriteEnter \/ WriteWait
    \/ WriteWake \/ WriteCopy \/ WriteReturn
    \/ CloseCall \/ CloseLock \/ CloseSet

ConsumerNext ==
    \/ ReadCall \/ ReadLock \/ ReadWait \/ ReadWake \/ ReadReturnNil
    \/ ReadReturnData

\* the filter of the second part stays as constructed while the buffer runs
FirIdle ==
    /\ firTaps = <<1>>
    /\ firRatio = <<1, 1>>
    /\ firState = <<>>
    /\ firPrev = <<>>
    /\ firBlock = <<>>
    /\ firBuffer = <<>>
    /\ firOut = [isNil |-> TRUE, data |-> <<>>]
    /\ firIn = <<>>
    /\ firCat = <<>>
    /\ firCalls = 0

(***************************************************************************)
(* Demodulator (internal/dsp/demodulator.go)                                *)
(*                                                                          *)
(* A float is a sign and a magnitude, so that +0 and -0 are different       *)
(* values, as in IEEE 754.  The samples are the zero sample and the eight   *)
(* Gaussian integers of the axes and diagonals: their products are small    *)
(* integers, exact in float32, and lie on the axes and diagonals again, so  *)
(* every phase is a whole number of quarters of pi.  Phases are counted in  *)
(* that unit: 4 is +pi and -4 is -pi.                                       *)
(***************************************************************************)
Abs(v) == IF v < 0 THEN -v ELSE v

\* the float with the value of the integer v (+0 for 0)
Fl(v) == [s |-> IF v < 0 THEN -1 ELSE 1, m |-> Abs(v)]

\* -x: the sign flips, also that of a zero
FNeg(x) == [s |-> -x.s, m |-> x.m]

\* x * y: the sign of a zero product is the product of the signs
FMul(x, y) == [s |-> x.s * y.s, m |-> x.m * y.m]

\* x + y, rounding to nearest: an exact zero sum is +0 unless both are -0
FAdd(x, y) ==
    LET v == x.s * x.m + y.s * y.m
    IN  IF v # 0 THEN Fl(v)
        ELSE IF x.m = 0 /\ y.m = 0 /\ x.s = -1 /\ y.s = -1 THEN [s |-> -1, m |-> 0]
        ELSE [s |-> 1, m |-> 0]

\* x - y
FSub(x, y) == FAdd(x, FNeg(y))

\* complex(a, b) for integers a and b
Cx(a, b) == [re |-> Fl(a), im |-> Fl(b)]

\* the zero value of complex64
CZero == Cx(0, 0)

\* the conjugate left out
CConj_None(c) == c

\* line 29: complex(real(prev), -imag(prev))
CConj(c) == [re |-> c.re, im |-> FNeg(c.im)]

\* line 30: Go's complex product (a+bi)(c+di) = (ac - bd) + (ad + bc)i
CMul(x, y) ==
    [re |-> FSub(FMul(x.re, y.re), FMul(x.im, y.im)),
     im |-> FAdd(FMul(x.re, y.im), FMul(x.im, y.re))]

\* line 31: cmplx.Phase(p) = math.Atan2(imag(p), real(p)) in quarters of pi,
\* for p on an axis or a diagonal; Atan2(+0, x) is +pi and Atan2(-0, x) is -pi
\* for x < 0 and for x = -0, Atan2(+-0, x) is 0 for x > 0 and for x = +0
Phase(p) ==
    IF p.im.m = 0
    THEN IF p.re.s = 1 THEN 0 ELSE IF p.im.s = 1 THEN 4 ELSE -4
    ELSE IF p.re.m = 0 THEN 2 * p.im.s
    ELSE IF p.re.s = 1 THEN p.im.s ELSE 3 * p.im.s

\* the product taken the other way round: prev times the conjugate of current
DemDelta_Reversed(current, prev) == Phase(CMul(prev, CConj(current)))

\* lines 29-31: one output sample
DemDelta(current, prev) == Phase(CMul(current, CConj(prev)))

\* a state update that keeps the old sample
DemNextPrev_Stale(prev, samples) == prev

\* lines 24, 32, 36: the sample kept for the next call
DemNextPrev(prev, samples) == samples[Len(samples)]

\* lines 23-33: the output samples
DemOutput(prev, samples) ==
    [i \in 1..Len(samples) |->
        DemDelta(samples[i], IF i = 1 THEN prev ELSE samples[i - 1])]

\* Process without the test of line 17
DemProcess_NoEmptyCheck(prev, samples) ==
    [isNil |-> FALSE,
     data |-> DemOutput(prev, samples),
     prev |-> IF Len(samples) = 0 THEN prev ELSE DemNextPrev(prev, samples)]

\* Process, lines 16-38: the result (nil or the output) and the new d.prev
DemProcess(prev, samples) ==
    IF Len(samples) = 0
    THEN [isNil |-> TRUE, data |-> <<>>, prev |-> prev]
    ELSE [isNil |-> FALSE,
          data |-> DemOutput(prev, samples),
          prev |-> DemNextPrev(prev, samples)]

\* the complex samples tried
DemSamples == {Cx(a, b) : a \in {-1, 0, 1}, b \in {-1, 0, 1}}

\* the blocks tried: every sequence of 0 .. MaxDemIn samples
DemBlocks == UNION {[1..k -> DemSamples] : k \in 0..MaxDemIn}

\* NewDemodulator, lines 11-13
DemInit ==
    /\ demPrev = CZero
    /\ demBefore = CZero
    /\ demBlock = <<>>
    /\ demOut = [isNil |-> TRUE, data |-> <<>>]
    /\ demIn = <<>>
    /\ demCat = <<>>
    /\ demCalls = 0

\* the output stage before its first sample, with the filter of the default
\* of the bounded runs
AudioIdle ==
    /\ deAlpha = <<1, 2>>
    /\ dePrev = <<0, 1>>
    /\ deIn = <<>>
    /\ deOut = <<>>
    /\ clippedSamples = 0
    /\ clippedBefore = 0
    /\ sink = <<>>

\* main, lines 175-180: both goroutines at their first statement, the source
\* not read yet
PipeInit ==
    /\ pPc = "start"
    /\ pErr = "nil"
    /\ src = "more"
    /\ closeCalls = 0
    /\ cPc = "loop"
    /\ frames = 0
    /\ stage1In = <<>>

\* the two stage-1 filters as constructed, for a one-tap kernel
IqIdle ==
    /\ iqTaps = <<1>>
    /\ iqRatio = <<1, 1>>
    /\ iqBlockSize = 1
    /\ iState = <<>>
    /\ qState = <<>>
    /\ iOut = [isNil |-> TRUE, data |-> <<>>]
    /\ qOut = [isNil |-> TRUE, data |-> <<>>]
    /\ complexSamples = <<>>
    /\ iqPanic = FALSE
    /\ iqFrames = 0

\* everything outside the ring buffer and the FIR filter as constructed
AuxIdle == DemInit /\ AudioIdle /\ PipeInit /\ IqIdle

\* one call d.Process(block)
DemodProcess ==
    /\ demCalls < MaxDemCalls
    /\ \E block \in DemBlocks :
          /\ Len(demIn) + Len(block) <= MaxDemIn
          /\ LET res == DemProcess(demPrev, block)
             IN  /\ demPrev' = res.prev
                 /\ demOut' = [isNil |-> res.isNil, data |-> res.data]
                 /\ demCat' = demCat \o res.data
          /\ demBefore' = demPrev
          /\ demBlock' = block
          /\ demIn' = demIn \o block
    /\ demCalls' = demCalls + 1
    /\ UNCHANGED <<rbVars, firVars, audioVars, pipeVars, iqVars>>

DemNext == DemodProcess

\* the ring buffer and the FIR filter stay as constructed
InitDemod == RbInit /\ FirIdle /\ DemInit /\ AudioIdle /\ PipeInit /\ IqIdle

SpecDemod == InitDemod /\ [][DemNext]_vars

(***************************************************************************)
(* De-emphasis (dsp.Deemphasis) and the output loop of processIQ            *)
(*                                                                          *)
(* A float64 is a fraction <<numerator, denominator>> in lowest terms.  The *)
(* sample rates and time constants tried make alpha a power of 1/2 and the  *)
(* samples are small integers, so that every value Filter computes within   *)
(* the bound has a short binary expansion and the float64 arithmetic of the *)
(* code is exact.                                                           *)
(***************************************************************************)
RECURSIVE GCD(_, _)
GCD(a, b) == IF b = 0 THEN a ELSE GCD(b, a % b)

\* the fraction n/d in lowest terms with a positive denominator
QNorm(n, d) ==
    LET g == GCD(Abs(n), Abs(d))
        sg == IF d < 0 THEN -1 ELSE 1
    IN  <<(sg * n) \div g, (sg * d) \div g>>

QInt(v) == <<v, 1>>
QAdd(a, b) == QNorm(a[1] * b[2] + b[1] * a[2], a[2] * b[2])
QSub(a, b) == QNorm(a[1] * b[2] - b[1] * a[2], a[2] * b[2])
QMul(a, b) == QNorm(a[1] * b[1], a[2] * b[2])
QDiv(a, b) == QNorm(a[1] * b[2], a[2] * b[1])
QLe(a, b) == a[1] * b[2] <= b[1] * a[2]
QLt(a, b) == a[1] * b[2] < b[1] * a[2]

\* int16(audio) for a float inside the 16-bit range: the fraction is cut off
TruncQ(a) == IF a[1] < 0 THEN -((-a[1]) \div a[2]) ELSE a[1] \div a[2]

\* NewDeemphasis, lines 12-16: alpha for a sample rate and a time constant
NewDeemphasis(sampleRate, tau) ==
    LET dt == QDiv(QInt(1), QInt(sampleRate))
    IN  QDiv(dt, QAdd(tau, dt))

\* a filter that adds alpha * x without taking off the old value
Filter_Accumulate(prev, alpha, x) == QAdd(prev, QMul(alpha, x))

\* Filter, lines 19-22: the new d.prev, which is also the value returned
Filter(prev, alpha, x) == QAdd(prev, QMul(alpha, QSub(x, prev)))

\* a clamp that forgets the lower end
Clip_NoLowerBound(audio) ==
    IF QLt(QInt(ClipMax), audio) THEN [audio |-> QInt(ClipMax), clipped |-> 1]
    ELSE [audio |-> audio, clipped |-> 0]

\* processIQ, lines 326-332: the clamped value and the counter increment
Clip(audio) ==
    IF QLt(QInt(ClipMax), audio) THEN [audio |-> QInt(ClipMax), clipped |-> 1]
    ELSE IF QLt(audio, QInt(ClipMin)) THEN [audio |-> QInt(ClipMin), clipped |-> 1]
    ELSE [audio |-> audio, clipped |-> 0]

\* processIQ, line 340: uint16(int16(audio)) as two little-endian bytes
PutUint16(audio) ==
    LET u == TruncQ(audio) % 65536
    IN  <<u % 256, u \div 256>>

\* the pairs (sample rate, time constant) tried: alpha = 1/2, 1/4, 1/2, 1/4
DeConfigs == {<<1, <<1, 1>>>>, <<1, <<3, 1>>>>, <<2, <<1, 2>>>>, <<4, <<3, 4>>>>}

\* the samples the audio filter hands to the output loop
AudioInputs == {-20, -1, 0, 1, 9, 20}

\* processIQ, lines 264-266: a new filter and a counter at zero
AudioInit ==
    /\ \E c \in DeConfigs : deAlpha = NewDeemphasis(c[1], c[2])
    /\ dePrev = <<0, 1>>
    /\ deIn = <<>>
    /\ deOut = <<>>
    /\ clippedSamples = 0
    /\ clippedBefore = 0
    /\ sink = <<>>

\* processIQ, lines 321-342: the loop body for one sample of finalAudioRaw
AudioSample ==
    /\ Len(deIn) < MaxAudio
    /\ \E rawSample \in AudioInputs :
          LET y == Filter(dePrev, deAlpha, QInt(rawSample))
              c == Clip(QMul(y, QInt(Gain)))
          IN  /\ dePrev' = y
              /\ deIn' = Append(deIn, rawSample)
              /\ deOut' = Append(deOut, y)
              /\ clippedBefore' = clippedSamples
              /\ clippedSamples' = clippedSamples + c.clipped
              /\ sink' = Append(sink, PutUint16(c.audio))
    /\ UNCHANGED <<deAlpha, rbVars, firVars, demVars, pipeVars, iqVars>>

AudioNext == AudioSample

\* the ring buffer, the FIR filter and the demodulator stay as constructed
InitAudio == RbInit /\ FirIdle /\ DemInit /\ AudioInit /\ PipeInit /\ IqIdle

SpecAudio == InitAudio /\ [][AudioNext]_vars

(***************************************************************************)
(* The two goroutines of main: readFileIntoBuffer fills the ring buffer,    *)
(* processIQ drains it.  Write, Close and Read run through the steps of the *)
(* ring buffer above; the actions here are the statements around them.      *)
(***************************************************************************)
\* processIQ, line 250
FrameSize == SampleBlockSize * 2

\* what one read of the source can give: a count n out of sizes, the error
\* and the state of the source afterwards; a source that has ended or failed
\* stays so
SrcRead(st, sizes) ==
    IF st = "more"
    THEN {[n |-> n, err |-> e[1], next |-> e[2]] :
             n \in sizes, e \in {<<"nil", "more">>, <<"EOF", "eof">>, <<"fail", "failed">>}}
    ELSE IF st = "eof" THEN {[n |-> 0, err |-> "EOF", next |-> "eof"]}
    ELSE {[n |-> 0, err |-> "fail", next |-> "failed"]}

\* file.Read: a number of bytes
RawSizes == 0..(2 * MaxChunk)

\* decoder.PCMBuffer: a number of samples, I and Q interleaved
WavSizes == {n \in 0..MaxChunk : n % 2 = 0}

\* line 189: decoder.IsValidFile() chooses the raw or the WAV path
PipeOpen ==
    /\ pPc = "start"
    /\ \E next \in {"raw_read", "wav_header"} : pPc' = next
    /\ UNCHANGED <<rbVars, firVars, iqVars, demVars, audioVars, pErr, src, closeCalls, cPc, frames, stage1In>>

\* lines 213-223: FwdToPCM and the bit depth test; log.Fatal ends the process
\* without running the deferred Close
PipeWavHeader ==
    /\ pPc = "wav_header"
    /\ \E next \in {"wav_read", "fatal"} : pPc' = next
    /\ UNCHANGED <<rbVars, firVars, iqVars, demVars, audioVars, pErr, src, closeCalls, cPc, frames, stage1In>>

\* lines 193-201: file.Read and, when it gave bytes, the call rb.Write(int16Buf)
PipeRawRead ==
    /\ pPc = "raw_read"
    /\ pc[Producer] = "idle"
    /\ \E o \in SrcRead(src, RawSizes) :
          LET k == o.n \div 2
          IN  /\ nextVal + k <= MaxTotal
              /\ src' = o.next
              /\ pErr' = o.err
              /\ IF o.n > 0
                 THEN /\ data' = Range(nextVal + 1, nextVal + k)
                      /\ nextVal' = nextVal + k
                      /\ wi' = 0
                      /\ wWaited' = FALSE
                      /\ pc' = [pc EXCEPT ![Producer] = "w_lock"]
                 ELSE UNCHANGED <<data, nextVal, wi, wWaited, pc>>
    /\ pPc' = "raw_check"
    /\ UNCHANGED <<firVars, iqVars, demVars, audioVars, buf, readIndex, writeIndex, closed, mu,
                   rn, rWaited, rDrained, lastRead, copied, dest, closeCalls, cPc, frames, stage1In>>

\* lines 202-207: leave the loop on io.EOF and on any other error
PipeRawCheck ==
    /\ pPc = "raw_check"
    /\ pc[Producer] = "idle"
    /\ pPc' = IF pErr = "nil" THEN "raw_read" ELSE "closing"
    /\ UNCHANGED <<rbVars, firVars, iqVars, demVars, audioVars, pErr, src, closeCalls, cPc, frames, stage1In>>

\* lines 233-244: decoder.PCMBuffer; leave the loop on io.EOF, otherwise call
\* rb.Write(samples) with the n samples and go round again
PipeWavRead ==
    /\ pPc = "wav_read"
    /\ pc[Producer] = "idle"
    /\ \E o \in SrcRead(src, WavSizes) :
          /\ src' = o.next
          /\ pErr' = o.err
          /\ IF o.err = "EOF"
             THEN /\ pPc' = "closing"
                  /\ UNCHANGED <<data, nextVal, wi, wWaited, pc>>
             ELSE /\ nextVal + o.n <= MaxTotal
                  /\ data' = Range(nextVal + 1, nextVal + o.n)
                  /\ nextVal' = nextVal + o.n
                  /\ wi' = 0
                  /\ wWaited' = FALSE
                  /\ pc' = [pc EXCEPT ![Producer] = "w_lock"]
                  /\ pPc' = "wav_read"
    /\ UNCHANGED <<firVars, iqVars, demVars, audioVars, buf, readIndex, writeIndex, closed, mu,
                   rn, rWaited, rDrained, lastRead, copied, dest, closeCalls, cPc, frames, stage1In>>

\* line 188: the deferred rb.Close() when readFileIntoBuffer returns
PipeClose ==
    /\ pPc = "closing"
    /\ pc[Producer] = "idle"
    /\ pc' = [pc EXCEPT ![Producer] = "c_lock"]
    /\ closeCalls' = closeCalls + 1
    /\ pPc' = "done"
    /\ UNCHANGED <<firVars, iqVars, demVars, audioVars, buf, readIndex, writeIndex, closed, mu,
                   data, wi, wWaited, rn, rWaited, rDrained, lastRead, nextVal, copied,
                   dest, pErr, src, cPc, frames, stage1In>>

\* lines 269-270: raw := rb.Read(frameSize)
PipeRead ==
    /\ cPc = "loop"
    /\ pPc # "fatal"
    /\ pc[Consumer] = "idle"
    /\ rn' = FrameSize
    /\ rWaited' = FALSE
    /\ rDrained' = (closed /\ AvailableRead = 0)
    /\ pc' = [pc EXCEPT ![Consumer] = "r_lock"]
    /\ cPc' = "read"
    /\ UNCHANGED <<firVars, iqVars, demVars, audioVars, buf, readIndex, writeIndex, closed, mu,
                   data, wi, wWaited, lastRead, nextVal, copied, dest, pPc, pErr, src,
                   closeCalls, frames, stage1In>>

\* a loop that also ends on a frame that came back short
LoopAfterRead_BreakOnShort(read) ==
    IF read.isNil \/ Len(read.data) < FrameSize
    THEN [next |-> "exited", processed |-> 0]
    ELSE [next |-> "loop", processed |-> 1]

\* lines 272-342: break on nil, continue on a short frame, otherwise put the
\* frame through the filters, the demodulator and the output loop (which
\* hold continue statements but no break or return) and go round again
LoopAfterRead(read) ==
    IF read.isNil THEN [next |-> "exited", processed |-> 0]
    ELSE IF Len(read.data) < FrameSize THEN [next |-> "loop", processed |-> 0]
    ELSE [next |-> "loop", processed |-> 1]

\* the rest of one round of processIQ's loop once Read has returned
PipeFrame ==
    /\ cPc = "read"
    /\ pPc # "fatal"
    /\ pc[Consumer] = "idle"
    /\ LET o == LoopAfterRead(lastRead)
       IN  /\ cPc' = o.next
           /\ frames' = frames + o.processed
           /\ stage1In' = IF o.processed = 1 THEN stage1In \o lastRead.data ELSE stage1In
    /\ UNCHANGED <<rbVars, firVars, iqVars, demVars, audioVars, pPc, pErr, src, closeCalls>>

\* readFileIntoBuffer; Write is never entered on a closed buffer here, so its
\* panic is left out
PipeProducerNext ==
    \/ PipeOpen \/ PipeWavHeader \/ PipeRawRead \/ PipeRawCheck \/ PipeWavRead
    \/ PipeClose
    \/ WriteLock \/ WriteEnter \/ WriteWait \/ WriteWake \/ WriteCopy \/ WriteReturn
    \/ CloseLock \/ CloseSet

\* processIQ
PipeConsumerNext ==
    \/ PipeRead \/ PipeFrame
    \/ ReadLock \/ ReadWait \/ ReadWake \/ ReadReturnNil \/ ReadReturnData

PipeNext == PipeProducerNext \/ PipeConsumerNext

\* the filters and the output stage stay as constructed
InitPipe == RbInit /\ FirIdle /\ DemInit /\ AudioIdle /\ PipeInit /\ IqIdle

SpecPipe == InitPipe /\ [][PipeNext]_vars

\* the Go scheduler lets a goroutine that can run again and again run, and a
\* goroutine waiting for the mutex gets it
FairPipe ==
    /\ SpecPipe
    /\ SF_vars(PipeProducerNext)
    /\ SF_vars(PipeConsumerNext)

Init == RbInit /\ FirIdle /\ AuxIdle

Next == ProducerNext \/ ConsumerNext

Spec == Init /\ [][Next]_vars

\* the ring buffer with a consumer that asks for nothing as well
NextZero == ProducerNext \/ ConsumerNext \/ ReadCallZero

SpecZero == Init /\ [][NextZero]_vars

\* Go's scheduler runs every runnable goroutine, and sync.Mutex hands the lock
\* to a goroutine that has been waiting for it (starvation mode), so a step
\* that is enabled again and again is eventually taken
FairSpec ==
    /\ Spec
    /\ SF_vars(ProducerNext)
    /\ SF_vars(ConsumerNext)

(***************************************************************************)
(* FIRFilter (internal/dsp/fir.go)                                          *)
(*                                                                          *)
(* Samples and taps are small integers and the ratio is a power of two      *)
(* (num/den), so every float32 product and sum and every float64 product    *)
(* of fir.go is exact and the integer arithmetic below is what the Go code  *)
(* computes.                                                                *)
(***************************************************************************)
\* the kernels tried: one, two and three taps
TapSets == {<<1>>, <<1, 2>>, <<1, 2, 1>>}

\* the ratios tried, as <<numerator, denominator>>: 1, 1/2, 1/4 and 2
Ratios == {<<1, 1>>, <<1, 2>>, <<1, 4>>, <<2, 1>>}

\* the sample values tried
SampleVals == {1, 2}

\* the input blocks tried: every sequence of 0 .. MaxBlock sample values
Blocks == UNION {[1..k -> SampleVals] : k \in 0..MaxBlock}

\* Go's int(x) of the quotient a/b (b > 0): truncation toward zero
Trunc(a, b) == IF a >= 0 THEN a \div b ELSE -((-a) \div b)

Zeros(k) == [j \in 1..k |-> 0]

\* NewFIRFilter, line 13: a tail of len(taps)-1 zeros
NewFIRState(taps) == Zeros(Len(taps) - 1)

\* lines 21-23: the working buffer, the tail followed by the input block
FirBuffer(state, input) ==
    [k \in 1..(Len(state) + Len(input)) |->
        IF k <= Len(state) THEN state[k] ELSE input[k - Len(state)]]

\* line 27: outputLen
FirOutputLen(bufLen, tapCount, ratio) ==
    Trunc((bufLen - tapCount + 1) * ratio[1], ratio[2])

\* a start that forgets the decimation: the output index itself
FirStart_NoDecimation(i, ratio) == Min(i, Trunc(i * ratio[2], ratio[1]))

\* lines 19, 35-36: start for output index i (from 0), int(i * (1/ratio))
FirStart(i, ratio) == Trunc(i * ratio[2], ratio[1])

\* lines 38-41: the taps times the samples buffer[start], buffer[start+1], ...
\* (buffer is indexed from 1 here, so buffer[start+j] of the code is
\* buffer[start+j+1])
RECURSIVE FirAcc(_, _, _, _)
FirAcc(buffer, start, taps, j) ==
    IF j = 0 THEN 0
    ELSE FirAcc(buffer, start, taps, j - 1) + buffer[start + (j - 1) + 1] * taps[j]

\* lines 32-43: the output samples
FirOutput(buffer, taps, ratio, outputLen) ==
    [i \in 1..outputLen |-> FirAcc(buffer, FirStart(i - 1, ratio), taps, Len(taps))]

\* a state update that cuts the tail to len(taps)-1 samples on every call
FirNextState_AlwaysCut(buffer, tapCount, outputLen) ==
    IF Len(buffer) <= tapCount - 1 THEN buffer
    ELSE SubSeq(buffer, Len(buffer) - (tapCount - 1) + 1, Len(buffer))

\* lines 28-29 and 46: the tail kept for the next call
FirNextState_OneShort(buffer, tapCount, outputLen) ==
    IF outputLen <= 0 THEN buffer
    ELSE SubSeq(buffer, Len(buffer) - (tapCount - 2) + 1, Len(buffer))

FirNextState(buffer, tapCount, outputLen) ==
    IF outputLen <= 0 THEN buffer
    ELSE SubSeq(buffer, Len(buffer) - (tapCount - 1) + 1, Len(buffer))

\* Process, lines 18-48: the result (nil or the output samples), the working
\* buffer and the new tail
FirProcess(state, input, taps, ratio) ==
    LET buffer == FirBuffer(state, input)
        outputLen == FirOutputLen(Len(buffer), Len(taps), ratio)
    IN  [isNil |-> outputLen <= 0,
         data |-> IF outputLen <= 0 THEN <<>>
                  ELSE FirOutput(buffer, taps, ratio, outputLen),
         buffer |-> buffer,
         state |-> FirNextState(buffer, Len(taps), outputLen)]

\* a filter as NewFIRFilter leaves it, for some kernel, used at some ratio
FirInit ==
    /\ firTaps \in TapSets
    /\ firRatio \in Ratios
    /\ firState = NewFIRState(firTaps)
    /\ firPrev = <<>>
    /\ firBlock = <<>>
    /\ firBuffer = <<>>
    /\ firOut = [isNil |-> TRUE, data |-> <<>>]
    /\ firIn = <<>>
    /\ firCat = <<>>
    /\ firCalls = 0

\* one call f.Process(block, ratio)
FIRProcess ==
    /\ firCalls < MaxCalls
    /\ \E block \in Blocks :
          /\ Len(firIn) + Len(block) <= MaxIn
          /\ LET res == FirProcess(firState, block, firTaps, firRatio)
             IN  /\ firState' = res.state
                 /\ firBuffer' = res.buffer
                 /\ firOut' = [isNil |-> res.isNil, data |-> res.data]
                 /\ firCat' = firCat \o res.data
          /\ firPrev' = firState
          /\ firBlock' = block
          /\ firIn' = firIn \o block
    /\ firCalls' = firCalls + 1
    /\ UNCHANGED <<firTaps, firRatio, rbVars, auxVars>>

FirNext == FIRProcess

\* the ring buffer stays as constructed while the filter runs
InitFIR == RbInit /\ FirInit /\ AuxIdle

SpecFIR == InitFIR /\ [][FirNext]_vars

(***************************************************************************)
(* Stage 1 of processIQ: one frame split into I and Q, each put through a   *)
(* filter of its own built from the same kernel (src/README.md 254-308).    *)
(* The division by 32768 of lines 287-288 is left out: it changes values,   *)
(* not lengths.                                                             *)
(***************************************************************************)
\* the frames tried for a block size: frameSize = 2 * blockSize samples
RawFrames(blockSize) == [1..(2 * blockSize) -> SampleVals]

\* lines 285, 287: I[i] = raw[2*i]
IBlock(raw, blockSize) == [i \in 1..blockSize |-> raw[2 * (i - 1) + 1]]

\* a Q block that misses its last sample
QBlock_Short(raw, blockSize) == [i \in 1..(blockSize - 1) |-> raw[2 * (i - 1) + 2]]

\* lines 286, 288: Q[i] = raw[2*i+1]
QBlock(raw, blockSize) == [i \in 1..blockSize |-> raw[2 * (i - 1) + 2]]

\* lines 305-308: complexSamples, as long as intermediateI; panics is TRUE
\* when intermediateQ[i] does not exist for an i of intermediateI
Recombine(outI, outQ) ==
    [panics |-> Len(outI) > Len(outQ),
     samples |-> [i \in 1..Min(Len(outI), Len(outQ)) |-> <<outI[i], outQ[i]>>]]

\* lines 254-256: one kernel, two filters; the block size and the ratio of
\* the run
IqInit ==
    /\ iqTaps \in TapSets
    /\ iqRatio \in Ratios
    /\ iqBlockSize \in 1..MaxBlock
    /\ iState = NewFIRState(iqTaps)
    /\ qState = NewFIRState(iqTaps)
    /\ iOut = [isNil |-> TRUE, data |-> <<>>]
    /\ qOut = [isNil |-> TRUE, data |-> <<>>]
    /\ complexSamples = <<>>
    /\ iqPanic = FALSE
    /\ iqFrames = 0

\* lines 281-308: one full frame through the two filters; only intermediateI
\* is tested for nil
StageOne ==
    /\ iqFrames < MaxFrames
    /\ ~iqPanic
    /\ \E raw \in RawFrames(iqBlockSize) :
          LET resI == FirProcess(iState, IBlock(raw, iqBlockSize), iqTaps, iqRatio)
              resQ == FirProcess(qState, QBlock(raw, iqBlockSize), iqTaps, iqRatio)
              c == Recombine(resI.data, resQ.data)
          IN  /\ iState' = resI.state
              /\ qState' = resQ.state
              /\ iOut' = [isNil |-> resI.isNil, data |-> resI.data]
              /\ qOut' = [isNil |-> resQ.isNil, data |-> resQ.data]
              /\ IF resI.isNil
                 THEN UNCHANGED <<complexSamples, iqPanic>>
                 ELSE /\ complexSamples' = c.samples
                      /\ iqPanic' = c.panics
    /\ iqFrames' = iqFrames + 1
    /\ UNCHANGED <<iqTaps, iqRatio, iqBlockSize, rbVars, firVars, demVars, audioVars,
                   pipeVars>>

IqNext == StageOne

\* everything else stays as constructed
InitIQ == RbInit /\ FirIdle /\ DemInit /\ AudioIdle /\ PipeInit /\ IqInit

SpecIQ == InitIQ /\ [][IqNext]_vars

(***************************************************************************)
(* Properties of the ring buffer                                            *)
(***************************************************************************)

\* the pc values at which a goroutine is between Lock and Unlock
Held == {"w_check", "w_loop", "c_set", "r_loop"}

\* the pc values of a running Write that has found the buffer open or has not
\* looked yet
InWrite == {"w_lock", "w_check", "w_loop", "w_wait", "w_wake"}

\* the samples the cursors say were live when the last Read took its data: the
\* lastRead.avail most recently stored ones
LiveAtLastRead ==
    Range(lastRead.copiedAt - lastRead.avail + 1, lastRead.copiedAt)

\* C1: one producer writing chunks and then closing, one consumer reading until
\* end-of-stream: when Read has reported end-of-stream, the concatenation of
\* the Read results is exactly the sequence of samples given to Write, in order.
C1_RoundTrip ==
    (lastRead.valid /\ lastRead.isNil) => dest = Range(1, nextVal)

\* C2: at most Size-1 samples are live (stored by Write and not yet returned by
\* Read) in every reachable state: a copy step never fills the last free slot.
C2_OneSlotEmpty ==
    copied - Len(dest) <= Size - 1

\* C3: a Read(n) that returns while the buffer is open was not cut short: n
\* samples were available, it returns exactly the n oldest samples not yet
\* delivered, and readIndex has advanced by n modulo Size.
C3_ReadExactWhileOpen ==
    (lastRead.valid /\ ~lastRead.closedAtRet) =>
        /\ ~lastRead.isNil
        /\ lastRead.avail >= lastRead.n
        /\ lastRead.data = Range(lastRead.base + 1, lastRead.base + lastRead.n)
        /\ lastRead.r1 = (lastRead.r0 + lastRead.n) % Size

\* what of C3 the code does keep: the length and the cursor
ReadLengthWhileOpen ==
    (lastRead.valid /\ ~lastRead.closedAtRet) =>
        /\ ~lastRead.isNil
        /\ Len(lastRead.data) = lastRead.n
        /\ lastRead.r1 = (lastRead.r0 + lastRead.n) % Size

\* C4: after Close, a Read(n) finding r samples with 0 < r < n returns exactly
\* those r samples; the Read after such a short Read returns nil; a Read called
\* when the buffer is closed and empty returns nil and is never parked.
C4_DrainAfterClose ==
    lastRead.valid =>
        /\ (lastRead.closedAtRet /\ 0 < lastRead.avail /\ lastRead.avail < lastRead.n)
              => (~lastRead.isNil /\ lastRead.data = LiveAtLastRead)
        /\ lastRead.afterShort => lastRead.isNil
        /\ lastRead.drainedAtCall => (lastRead.isNil /\ ~lastRead.waited)

\* a Read returned nil right after a Read that returned fewer samples than asked
C4_Witness ==
    /\ lastRead.valid /\ lastRead.afterShort /\ lastRead.isNil
    /\ lastRead.drainedAtCall

\* C5: once the buffer is closed, a Read that is running (parked in Wait when
\* Close came, or called later) eventually returns.
C5_CloseWakesReaders ==
    (closed /\ pc[Consumer] # "idle") ~> (pc[Consumer] = "idle")

\* a Read that had been parked in Wait returned nil from a closed, empty buffer
C5_Witness ==
    /\ lastRead.valid /\ lastRead.waited /\ lastRead.isNil
    /\ lastRead.closedAtRet /\ lastRead.avail = 0

\* C6, the steps of a Write on a closed buffer: it takes the lock, panics, and
\* touches neither the storage, the cursors nor the flag
C6_Step ==
    (closed /\ pc[Producer] \in {"w_lock", "w_check"} /\ pc'[Producer] # pc[Producer])
        => /\ pc'[Producer] \in {"w_check", "panicked"}
           /\ UNCHANGED <<buf, readIndex, writeIndex, closed, copied>>

\* C6, the reads after the panic: they still give the buffered samples, oldest
\* first
C6_Readable ==
    (lastRead.valid /\ lastRead.afterPanic /\ ~lastRead.isNil) =>
        /\ Len(lastRead.data) = Min(lastRead.n, lastRead.avail)
        /\ lastRead.data = SubSeq(LiveAtLastRead, 1, Len(lastRead.data))

\* C6: a Write after Close panics and adds nothing: cursors, storage and flag
\* are unchanged and the buffered samples stay readable in order.
C6_WriteAfterClose == [][C6_Step]_vars /\ []C6_Readable

\* a Read returned samples after a Write had panicked
C6_Witness ==
    /\ pc[Producer] = "panicked"
    /\ lastRead.valid /\ lastRead.afterPanic /\ ~lastRead.isNil

\* C7, backpressure: Write copies only when there is free space, and parks when
\* there is none
C7_Step ==
    /\ copied' # copied => AvailableWrite # 0
    /\ (pc[Producer] = "w_loop" /\ wi < Len(data) /\ AvailableWrite = 0
          /\ pc'[Producer] # pc[Producer])
        => pc'[Producer] = "w_wait"

C8_State ==
    /\ \A p \in Proc : (pc[p] \in Held) <=> (mu = p)
    /\ Cardinality({p \in Proc : pc[p] \in Held}) <= 1

\* C8, the lock discipline in a step: the shared fields change only in a step
\* of the goroutine that holds the mutex, and a goroutine leaving Wait holds
\* the mutex and is back at the test of its loop
C8_Step ==
    /\ (<<buf, readIndex, writeIndex, closed>>' # <<buf, readIndex, writeIndex, closed>>)
          => (mu \in Proc /\ pc[mu] \in Held
              /\ \A q \in Proc \ {mu} : pc[q] \notin Held)
    /\ \A p \in Proc :
          (pc[p] \in {"w_wake", "r_wake"} /\ pc'[p] # pc[p])
              => (mu' = p /\ pc'[p] \in {"w_loop", "r_loop"})

\* C8: every change of the cursors, the storage and the flag happens under the
\* one mutex, at most one goroutine holds it, and a goroutine parked in Wait
\* does not hold it and tests its condition again after waking.
C8_LockDiscipline == []C8_State /\ [][C8_Step]_vars

\* the producer is parked in Wait while the consumer is inside Read's
\* critical section
C8_Witness ==
    pc[Producer] = "w_wait" /\ mu = Consumer /\ pc[Consumer] = "r_loop"

(***************************************************************************)
(* Properties of the FIR filter                                             *)
(***************************************************************************)

\* the whole input so far behind the zero tail of a fresh filter
FirStream == FirBuffer(NewFIRState(firTaps), firIn)

\* what one Process call over the whole input gives on a fresh filter
FirWhole == FirProcess(NewFIRState(firTaps), firIn, firTaps, firRatio)

\* C9: chunk-invariance: the concatenated outputs of the Process calls made so
\* far equal the output of one Process call over the concatenated input on a
\* fresh filter, for every kernel, ratio and split.
C9_ChunkInvariance ==
    firCalls > 0 => firCat = FirWhole.data

\* C10: the state update of Process: the working buffer is the old tail
\* followed by the block; a call with output leaves the last tapCount-1
\* samples of the working buffer as tail; a call without output returns nil and
\* leaves the whole working buffer as tail, so the tail is always the end of
\* the input stream and no sample is lost.
C10_StateUpdate ==
    firCalls > 0 =>
        /\ firBuffer = firPrev \o firBlock
        /\ firOut.isNil <=> (FirOutputLen(Len(firBuffer), Len(firTaps), firRatio) <= 0)
        /\ ~firOut.isNil =>
              /\ Len(firState) = Len(firTaps) - 1
              /\ \A k \in 1..Len(firState) :
                    firState[k] = firBuffer[Len(firBuffer) - Len(firState) + k]
        /\ firOut.isNil => (firOut.data = <<>> /\ firState = firBuffer)
        /\ Len(firState) <= Len(FirStream)
        /\ firState = SubSeq(FirStream, Len(FirStream) - Len(firState) + 1,
                             Len(FirStream))

\* a call without output enlarged the tail and the next call produced output
C10_Witness ==
    /\ firCalls >= 2
    /\ ~firOut.isNil
    /\ Len(firPrev) > Len(firTaps) - 1
    /\ Len(firBlock) > 0

\* the sum of taps[j] * buffer[start + j] over the tapCount taps, with buffer
\* indexed from 0 as in the Go code
RECURSIVE TapSum(_, _, _, _)
TapSum(buffer, start, taps, j) ==
    IF j > Len(taps) THEN 0
    ELSE taps[j] * buffer[(start + (j - 1)) + 1] + TapSum(buffer, start, taps, j + 1)

\* floor((L - tapCount + 1) * ratio) for the last working buffer
FirProducible ==
    ((Len(firBuffer) - Len(firTaps) + 1) * firRatio[1]) \div firRatio[2]

\* C11: the output rule of Process: for a working buffer of length L it
\* returns exactly floor((L - tapCount + 1) * ratio) samples when that number
\* is positive, and output sample i is the dot product of the taps with the
\* tapCount working-buffer samples starting at floor(i / ratio).
C11_OutputRule ==
    (firCalls > 0 /\ FirProducible > 0) =>
        /\ ~firOut.isNil
        /\ Len(firOut.data) = FirProducible
        /\ \A i \in 0..(FirProducible - 1) :
              /\ ((i * firRatio[2]) \div firRatio[1]) + Len(firTaps) <= Len(firBuffer)
              /\ firOut.data[i + 1] =
                    TapSum(firBuffer, (i * firRatio[2]) \div firRatio[1], firTaps, 1)

\* a three-tap filter decimating by two produced at least two samples
C11_Witness ==
    /\ firCalls > 0 /\ ~firOut.isNil
    /\ Len(firOut.data) >= 2
    /\ firRatio = <<1, 2>> /\ Len(firTaps) = 3


(***************************************************************************)
(* Properties of the demodulator                                            *)
(***************************************************************************)
\* one Process call over everything fed so far, on a fresh demodulator
DemWhole == DemProcess(CZero, demIn)

\* C12: chunk-invariance of the demodulator: however the input is split into
\* blocks, empty ones included, the concatenated outputs are as long as the
\* input and equal, from the second sample on, the output of one Process call
\* over the whole input on a fresh demodulator.
C12_DemChunkInvariance ==
    demCalls > 0 =>
        /\ Len(demCat) = Len(demIn)
        /\ \A i \in 2..Len(demIn) : demCat[i] = DemWhole.data[i]

\* three calls, one of them on an empty block, the last on one sample
C12_Witness ==
    /\ demCalls = 3 /\ Len(demIn) = 2 /\ Len(demBlock) = 1
    /\ Len(demCat) = 2 /\ demCat[2] # 0

\* C13: the carried sample is zero before the first call, is the last sample
\* of the block after a call on a non-empty block, and a call on an empty
\* block returns nil and leaves the carried sample as it was.
C13_DemStateRule ==
    /\ demCalls = 0 => demPrev = CZero
    /\ (demCalls > 0 /\ Len(demBlock) > 0) =>
          /\ demPrev = demBlock[Len(demBlock)]
          /\ ~demOut.isNil
          /\ Len(demOut.data) = Len(demBlock)
    /\ (demCalls > 0 /\ Len(demBlock) = 0) =>
          /\ demOut.isNil
          /\ demPrev = demBefore

\* an empty block given to a demodulator that carries a non-zero sample
C13_Witness ==
    /\ demCalls >= 2 /\ demBlock = <<>>
    /\ demOut.isNil /\ demPrev # CZero /\ demPrev = demBefore

\* a sample other than zero, and a sample of magnitude one
NonZero(c) == c.re.m # 0 \/ c.im.m # 0
UnitMagnitude(c) == c.re.m * c.re.m + c.im.m * c.im.m = 1

\* the angle d reduced modulo 2*pi into (-pi, pi], in quarters of pi
Wrap(d) == ((d + 3) % 8) - 3

\* the increments theta in (-pi, pi] the samples allow
Increments == -3..4

\* the phase of every sample fed so far is that of its predecessor plus theta
ConstantIncrement(theta) ==
    /\ Len(demIn) >= 2
    /\ \A k \in 1..Len(demIn) : NonZero(demIn[k])
    /\ \A k \in 2..Len(demIn) :
          Wrap(Phase(demIn[k]) - Phase(demIn[k - 1])) = theta

\* C14 as stated: a unit-magnitude input whose phase advances by theta in
\* (-pi, pi] per sample gives theta at every output but the first.
C14_ConstantIncrement_Stated ==
    \A theta \in Increments :
        (ConstantIncrement(theta) /\ \A k \in 1..Len(demIn) : UnitMagnitude(demIn[k])) =>
            \A k \in 2..Len(demIn) : demCat[k] = theta

\* C14 amended: an input of non-zero samples whose phase advances by theta per
\* sample gives, at every output but the first and across block boundaries,
\* theta itself when theta < pi; when theta = pi the output is +pi or -pi
\* (-pi when the imaginary part of the product is the negative zero).
C14_ConstantIncrement ==
    \A theta \in Increments :
        ConstantIncrement(theta) =>
            \A k \in 2..Len(demIn) :
                IF theta = 4 THEN demCat[k] \in {4, -4} ELSE demCat[k] = theta

\* an increment of 0.75*pi over three samples given in two calls
C14_Witness ==
    /\ demCalls = 2 /\ Len(demIn) = 3 /\ Len(demBlock) = 1
    /\ ConstantIncrement(3)
    /\ demCat[2] = 3 /\ demCat[3] = 3

\* output k is produced from two consecutive non-zero samples
Consecutive(k) == k >= 2 /\ NonZero(demIn[k]) /\ NonZero(demIn[k - 1])

\* C15 as stated: every output is the phase difference of consecutive samples
\* reduced modulo 2*pi into the half-open interval (-pi, pi].
C15_WrapAround_Stated ==
    \A k \in 1..Len(demCat) :
        /\ demCat[k] \in -3..4
        /\ Consecutive(k) => demCat[k] = Wrap(Phase(demIn[k]) - Phase(demIn[k - 1]))

\* C15 amended: every output lies in the closed interval [-pi, pi] and, for
\* consecutive non-zero samples, is congruent modulo 2*pi to their phase
\* difference; it equals the difference reduced into (-pi, pi] unless that is
\* pi, where -pi occurs as well; a sample at +0.75*pi followed by one at
\* -0.75*pi gives +0.5*pi.
C15_WrapAround ==
    \A k \in 1..Len(demCat) :
        /\ demCat[k] \in -4..4
        /\ Consecutive(k) =>
              LET d == Wrap(Phase(demIn[k]) - Phase(demIn[k - 1]))
              IN  /\ Wrap(demCat[k]) = d
                  /\ d # 4 => demCat[k] = d
                  /\ (demIn[k - 1] = Cx(-1, 1) /\ demIn[k] = Cx(-1, -1)) => demCat[k] = 2

\* the samples at phase 0, +0.75*pi and -0.75*pi, in that order
C15_Witness ==
    /\ demIn = <<Cx(1, 0), Cx(-1, 1), Cx(-1, -1)>>
    /\ demCat = <<0, 3, 2>>


(***************************************************************************)
(* Properties of the de-emphasis filter and the output loop                 *)
(***************************************************************************)
\* every sample given to Filter so far is the same
ConstantInput == \A i \in 1..Len(deIn) : deIn[i] = deIn[1]

\* the value Filter held before call i
DeBefore(i) == IF i = 1 THEN QInt(0) ELSE deOut[i - 1]

\* a to the power k
RECURSIVE QPow(_, _)
QPow(a, k) == IF k = 0 THEN QInt(1) ELSE QMul(a, QPow(a, k - 1))

\* C16: step response of the de-emphasis filter: from state 0 with
\* 0 < alpha < 1 and a constant input x, every output lies between the one
\* before and x (non-decreasing for x >= 0, non-increasing for x <= 0, never
\* past x), and the distance to x after call i is |x| * (1 - alpha)^i, which
\* falls below any tolerance as i grows.
C16_StepResponse ==
    (Len(deIn) > 0 /\ ConstantInput) =>
        LET x == QInt(deIn[1])
        IN  /\ QLt(QInt(0), deAlpha) /\ QLt(deAlpha, QInt(1))
            /\ \A i \in 1..Len(deOut) :
                  /\ QLe(QInt(0), x) => (QLe(DeBefore(i), deOut[i]) /\ QLe(deOut[i], x))
                  /\ QLe(x, QInt(0)) => (QLe(x, deOut[i]) /\ QLe(deOut[i], DeBefore(i)))
                  /\ QSub(x, deOut[i]) = QMul(x, QPow(QSub(QInt(1), deAlpha), i))

\* a constant 9 through alpha = 1/2: after four calls within 1/16 of the way
C16_Witness ==
    /\ Len(deIn) = MaxAudio /\ ConstantInput /\ deIn[1] = 9
    /\ deAlpha = <<1, 2>>
    /\ QLt(deOut[1], deOut[2]) /\ QLt(deOut[Len(deOut)], QInt(9))
    /\ QLe(QSub(QInt(9), deOut[Len(deOut)]), <<9, 16>>)

\* the signed 16-bit value of a byte pair written to the sink
Int16Of(b) ==
    LET u == b[1] + 256 * b[2]
    IN  IF u >= 32768 THEN u - 65536 ELSE u

\* the scaled de-emphasis value of sample i
Scaled(i) == QMul(deOut[i], QInt(Gain))

\* the sink value sample i must produce
Clamped(i) ==
    IF QLt(QInt(ClipMax), Scaled(i)) THEN ClipMax
    ELSE IF QLt(Scaled(i), QInt(ClipMin)) THEN ClipMin
    ELSE TruncQ(Scaled(i))

\* sample i was outside the 16-bit range
OutOfRange(i) == QLt(QInt(ClipMax), Scaled(i)) \/ QLt(Scaled(i), QInt(ClipMin))

\* C19: clipping: every sample given to the loop is emitted to the sink,
\* clamped or not; every emitted value lies in [-32768, 32767]; a scaled value
\* outside the range is emitted as the nearest end of the range and adds
\* exactly one to the counter, one inside the range adds nothing; the counter
\* never decreases.
C19_Clipping ==
    /\ Len(sink) = Len(deIn)
    /\ \A i \in 1..Len(sink) :
          /\ Int16Of(sink[i]) \in ClipMin..ClipMax
          /\ Int16Of(sink[i]) = Clamped(i)
    /\ clippedSamples >= clippedBefore
    /\ clippedSamples = Cardinality({i \in 1..Len(deIn) : OutOfRange(i)})
    /\ Len(deIn) > 0 =>
          clippedSamples = clippedBefore + (IF OutOfRange(Len(deIn)) THEN 1 ELSE 0)

\* a sample clamped at the lower end followed by one emitted unclamped
C19_Witness ==
    /\ Len(sink) >= 2
    /\ \E i \in 1..(Len(sink) - 1) :
          /\ QLt(Scaled(i), QInt(ClipMin)) /\ Int16Of(sink[i]) = ClipMin
          /\ ~OutOfRange(i + 1) /\ Int16Of(sink[i + 1]) # 0
    /\ clippedSamples >= 1


(***************************************************************************)
(* Properties of the two goroutines                                         *)
(***************************************************************************)
\* processIQ has left its loop: the buffer is closed, its cursors hold
\* nothing, and the last Read returned nil
C17_ExitState ==
    cPc = "exited" =>
        /\ closed /\ AvailableRead = 0
        /\ lastRead.valid /\ lastRead.isNil

\* Read returns nil only on a closed buffer whose cursors hold nothing
C17_NilAtEnd ==
    (lastRead.valid /\ lastRead.isNil) => (lastRead.closedAtRet /\ lastRead.avail = 0)

\* a round of the loop ends the loop exactly when its Read returned nil, and a
\* loop that has ended stays ended
C17_Step ==
    /\ (cPc = "read" /\ cPc' # "read") => (cPc' = "exited" <=> lastRead.isNil)
    /\ cPc = "exited" => cPc' = "exited"
    /\ cPc' = "exited" => (cPc = "exited" \/ cPc = "read")

InWriteCall == pc[Producer] \in {"w_lock", "w_check", "w_loop", "w_wait", "w_wake"}

\* Close is called at most once, no Write runs once it was called, and it is
\* called only when readFileIntoBuffer returns
C18_Order ==
    /\ closeCalls <= 1
    /\ InWriteCall => (closeCalls = 0 /\ ~closed)
    /\ closeCalls = 1 <=> pPc = "done"
    /\ closed => closeCalls = 1

\* on the raw path, and at the end of a WAV file, the buffer gets closed
C18_RawPathCloses == (pErr # "nil" /\ pPc # "wav_read") ~> closed

\* C18: producer close handshake: on both input paths, once a read of the
\* source has reported its end or an error, readFileIntoBuffer calls Close,
\* exactly once and after its last Write, so that the buffer gets closed
\* and processIQ is not left waiting.
C18_CloseHandshake ==
    /\ []C18_Order
    /\ ((pErr # "nil") ~> closed)


(***************************************************************************)
(* Further properties of the ring buffer                                    *)
(***************************************************************************)
\* C21: Read returns nil only at the end of the stream: whatever n >= 0 was
\* asked for, a Read that returned nil found the buffer closed and its
\* cursors holding nothing.
C21_NilOnlyAtEnd ==
    (lastRead.valid /\ lastRead.isNil) =>
        (lastRead.closedAtRet /\ lastRead.avail = 0)

\* for requests of at least one sample nil does mean the end of the stream
C21_NilForPositive ==
    (lastRead.valid /\ lastRead.isNil /\ lastRead.n >= 1) =>
        (lastRead.closedAtRet /\ lastRead.avail = 0)


\* the wait conditions of lines 65 and 94
WriteMustWait == AvailableWrite = 0
ReadMustWait == ~closed /\ AvailableRead < rn

\* a goroutine in cond.Wait, parked or awoken and waiting for the mutex
Suspended(q) == pc[q] \in {"w_wait", "w_wake", "r_wait", "r_wake"}

\* a goroutine parked in cond.Wait still has its wait condition true: every
\* change of a cursor or of closed comes with a Broadcast
C22_Parked ==
    /\ pc[Producer] = "w_wait" => WriteMustWait
    /\ pc[Consumer] = "r_wait" => ReadMustWait
    /\ ~(pc[Producer] = "w_wait" /\ pc[Consumer] = "r_wait")

\* C22: deadlock freedom for one producer and one consumer with
\* 1 <= n <= Size-1: the producer is never parked in Write while the
\* consumer is parked in Read, a parked goroutine's wait condition is still
\* true (no Broadcast was missed), and a goroutine in cond.Wait whose wait
\* condition is false gets out of Wait, under fair scheduling.
C22_DeadlockFree ==
    /\ []C22_Parked
    /\ (Suspended(Consumer) /\ ~ReadMustWait) ~> ~Suspended(Consumer)
    /\ (Suspended(Producer) /\ ~WriteMustWait) ~> ~Suspended(Producer)

\* the producer is parked on a full buffer while the consumer, awoken from
\* its own wait, is about to take samples out
C22_Witness ==
    /\ pc[Producer] = "w_wait" /\ WriteMustWait
    /\ pc[Consumer] = "r_loop" /\ rWaited /\ rn \in 1..(Size - 1)


\* both cursors inside the storage, and the two counts adding up
CursorsInRange ==
    /\ readIndex \in 0..(Size - 1)
    /\ writeIndex \in 0..(Size - 1)
    /\ AvailableRead + AvailableWrite = Size - 1

\* C23: cursor invariant: both cursors stay in 0 .. Size-1,
\* AvailableRead() + AvailableWrite() = Size - 1, and AvailableRead() is the
\* number of samples written minus the number of samples read so far.
C23_CursorInvariant ==
    /\ CursorsInRange
    /\ AvailableRead = copied - Len(dest)


(***************************************************************************)
(* Further properties of the FIR filter                                     *)
(***************************************************************************)
\* the 0-based positions of the working buffer read for output sample i
FirAccesses(i) == {FirStart(i, firRatio) + j : j \in 0..(Len(firTaps) - 1)}

\* C24: index safety of Process: in every state reached by Process calls,
\* underrun calls included, each position start + j, 0 <= j < tapCount, read
\* for an output sample lies inside the working buffer, the tail cut off at
\* the end of the call lies inside it too, and the stored tail always has at
\* least tapCount - 1 samples.
C24_IndexSafety ==
    /\ Len(firState) >= Len(firTaps) - 1
    /\ firCalls > 0 =>
          /\ Len(firBuffer) >= Len(firTaps) - 1
          /\ Len(firBuffer) = Len(firPrev) + Len(firBlock)
          /\ \A i \in 0..(Len(firOut.data) - 1) :
                FirAccesses(i) \subseteq 0..(Len(firBuffer) - 1)

\* an output computed by a call that follows an underrun call, whose tail
\* was longer than tapCount - 1
C24_Witness ==
    /\ firCalls >= 2 /\ Len(firPrev) > Len(firTaps) - 1
    /\ ~firOut.isNil /\ Len(firOut.data) >= 1
    /\ Len(firTaps) = 3


\* C25: the stage-1 I filter and Q filter stay in lockstep: after every
\* frame their tails are equally long and their outputs are both nil or both
\* present and equally long, so that testing intermediateI alone for nil and
\* indexing intermediateQ by the indices of intermediateI stays in range.
C25_Lockstep ==
    /\ Len(iState) = Len(qState)
    /\ iOut.isNil = qOut.isNil
    /\ Len(iOut.data) = Len(qOut.data)
    /\ ~iqPanic
    /\ (iqFrames > 0 /\ ~iOut.isNil) => Len(complexSamples) = Len(iOut.data)

\* a frame that gave output after a frame that gave none, with I and Q
\* carrying different samples
C25_Witness ==
    /\ iqFrames >= 2 /\ ~iOut.isNil /\ Len(iOut.data) >= 1
    /\ Len(iqTaps) = 3 /\ iqBlockSize = 1
    /\ iState # qState


\* no Write has overrun the empty slot so far: the cursors still count the
\* samples written and not yet read
NoOverrun == copied - Len(dest) = AvailableRead

\* what C26 asks of the frames passed to stage 1
FramesAligned ==
    /\ Len(stage1In) = frames * FrameSize
    /\ \A k \in 1..Len(stage1In) : stage1In[k] = k
    /\ cPc = "exited" => Len(stage1In) = (nextVal \div FrameSize) * FrameSize

\* C26: frame alignment: every frame passed to stage 1 has FrameSize
\* samples, the frames are consecutive segments of the written stream from
\* its start (sample k of the stream is the value k), and once the loop has
\* ended after N written samples exactly the first
\* floor(N / FrameSize) * FrameSize of them were processed.
C26_FrameAlignment == FramesAligned

\* as long as no Write has overrun the empty slot the frames are aligned
C26_ApartFromOverrun == NoOverrun => FramesAligned

====
